---- MODULE Spec2Model ----
(***************************************************************************)
(* Model of the qckfx agent runtime: the tool-call executor (withToolCall) *)
(* and the execution-adapter factory (createExecutionAdapter).             *)
(*                                                                         *)
(* JavaScript is single threaded: every synchronous run of code between    *)
(* two awaits is one atomic action.  Promise reactions are delivered in    *)
(* FIFO order, so the first input of Promise.race to settle decides it,    *)
(* and when both inputs are already settled the first array element wins.  *)
(***************************************************************************)
EXTENDS Integers, Sequences, FiniteSets, TLC

\* ------------------------------------------------------------------ bounds
MaxCalls == 2

\* calls made under the fair specification
MaxFairCalls == 1

\* sessions processed side by side under the isolation specification
MaxSessions == 2

\* processQuery calls per session
MaxTurns == 2

\* model queries per turn
MaxIterations == 3

\* tool requests in one model response
MaxToolRequests == 2

\* external abort requests per session
MaxAbortRequests == 1

\* processQuery calls of one runConversation
MaxConversationCalls == 2

Calls == 1..MaxCalls

Sessions == 1..MaxSessions

\* the sessions of the single-session runner specification
RunnerSessions == {1}

\* the calls, iterations, requests per response and abort requests a
\* specification lets happen
RunnerCalls == 1..MaxTurns

FirstCall == {1}

ToolIterations == 1..(MaxIterations - 1)

FirstIteration == {1}

RequestCounts == 1..MaxToolRequests

SingleRequest == {1}

AbortNumbers == 1..MaxAbortRequests

FirstAbort == {1}

FairCalls == {c \in Calls : c <= MaxFairCalls}

\* ------------------------------------------------------- JavaScript values
\* Every JavaScript value of the model is a record [t, s]: a tag and a string.
JsVal(t, s) == [t |-> t, s |-> s]

ErrorObj(msg) == JsVal("Error", msg)

TypeErrorObj(msg) == JsVal("TypeError", msg)

NullVal == JsVal("null", "")

UndefinedVal == JsVal("undefined", "")

\* the marker object { aborted: true }
AbortedMarker == JsVal("abortedMarker", "")

\* the payload object { error: <string> }
ErrorPayload(str) == JsVal("errorPayload", str)

\* what a tool can resolve with
ToolValues == {JsVal("value", "v1")}

\* what a tool can throw or reject with
ThrownValues ==
  {ErrorObj("boom"), ErrorObj("AbortError"), JsVal("string", "boom"), NullVal}

\* Property access on null or undefined throws a TypeError.
CanReadProperty(v) == v.t \notin {"null", "undefined"}

\* (err as Error).message ; a string has no message property
MessageOf(err) == IF err.t \in {"Error", "TypeError"} THEN err.s ELSE "<undefined>"

\* String(err)
StringOf(err) ==
  CASE err.t = "Error" -> "Error: " \o err.s
    [] err.t = "TypeError" -> "TypeError: " \o err.s
    [] err.t = "string" -> err.s
    [] err.t = "null" -> "null"
    [] err.t = "undefined" -> "undefined"
    [] OTHER -> "[object Object]"

\* ----------------------------------------------------------------- promises
Pending == [state |-> "pending", v |-> UndefinedVal]

Fulfilled(v) == [state |-> "fulfilled", v |-> v]

Rejected(e) == [state |-> "rejected", v |-> e]

NoPromise == [state |-> "none", v |-> UndefinedVal]

IsSettled(p) == p.state \in {"fulfilled", "rejected"}

Settlements == {Fulfilled(v) : v \in ToolValues} \cup {Rejected(e) : e \in ThrownValues}

\* ------------------------------------------------------------------- state
VARIABLES
  currentToolExecutionId,  \* sessionState.currentToolExecutionId (0: unset)
  nextToolExecutionId,     \* source of generateNewToolExecutionId
  contextWindow,           \* sessionState.contextWindow: the conversation log
  toolResults,             \* the caller-owned result sequence
  signalAborted,           \* context.abortSignal.aborted
  listeners,               \* calls whose onAbort listener is registered
  pc,                      \* per call: "idle", "awaiting", "done"
  toolCall,                \* per call: [toolId, args, toolUseId]
  hasSignal,               \* per call: context.abortSignal is supplied
  prev,                    \* per call: the local const prev
  ownId,                   \* per call: the id generated for it
  execPromise,             \* per call: the promise returned by exec(context)
  awaited,                 \* per call: the promise the call awaits
  winner,                  \* per call: which input settled the awaited promise
  abortedOnEntry,          \* per call: signal was already aborted on entry
  outcome,                 \* per call: how withToolCall settled
  execCalls,               \* per call: invocations of exec(context)
  fpc,                     \* createExecutionAdapter: the await it stands at
  fOptions,                \* createExecutionAdapter: its options argument
  fSteps,                  \* createExecutionAdapter: backend steps run so far
  fallbackReason,          \* createExecutionAdapter: the local fallbackReason
  fFailure,                \* createExecutionAdapter: the error caught at line 145
  fResult                  \* createExecutionAdapter: how it settled

execVars ==
  <<currentToolExecutionId, nextToolExecutionId, contextWindow, toolResults,
    signalAborted, listeners, pc, toolCall, hasSignal, prev, ownId,
    execPromise, awaited, winner, abortedOnEntry, outcome, execCalls>>

factoryVars == <<fpc, fOptions, fSteps, fallbackReason, fFailure, fResult>>

VARIABLES
  abortFlags,              \* the abort registry: session id -> flag
  abortController,         \* per session: sessionState.abortController
  controllersCreated,      \* per session: AbortControllers constructed so far
  sessionLog,              \* per session: sessionState.contextWindow
  turns,                   \* per session: processQuery calls made
  turn,                    \* per session: the call in flight and its driver
  queryResult,             \* per session: what the last processQuery settled with
  abortRequests,           \* per session: external abort requests so far
  requestsSeen             \* per session: abortRequests when the last call ended

runnerVars ==
  <<abortFlags, abortController, controllersCreated, sessionLog, turns, turn,
    queryResult, abortRequests, requestsSeen>>

VARIABLES
  conversation             \* runConversation: its locals and where it stands

conversationVars == <<conversation>>

vars == <<execVars, factoryVars, runnerVars, conversationVars>>

NoOutcome == [kind |-> "none", v |-> UndefinedVal]

Returned(v) == [kind |-> "returned", v |-> v]

Thrown(e) == [kind |-> "thrown", v |-> e]

NoToolCall == [toolId |-> 0, args |-> "args", toolUseId |-> 0]

ExecInit ==
  /\ currentToolExecutionId = 0
  /\ nextToolExecutionId = 1
  /\ contextWindow = << >>
  /\ toolResults = << >>
  /\ signalAborted = FALSE
  /\ listeners = {}
  /\ pc = [c \in Calls |-> "idle"]
  /\ toolCall = [c \in Calls |-> NoToolCall]
  /\ hasSignal = [c \in Calls |-> FALSE]
  /\ prev = [c \in Calls |-> 0]
  /\ ownId = [c \in Calls |-> 0]
  /\ execPromise = [c \in Calls |-> NoPromise]
  /\ awaited = [c \in Calls |-> NoPromise]
  /\ winner = [c \in Calls |-> "none"]
  /\ abortedOnEntry = [c \in Calls |-> FALSE]
  /\ outcome = [c \in Calls |-> NoOutcome]
  /\ execCalls = [c \in Calls |-> 0]

\* --------------------------------------------------------- withToolCall
\* generateNewToolExecutionId: a fresh id on every call
generateNewToolExecutionId(next) == next

\* Invocations leaving the tool alone when the signal is already aborted
InvocationsUnlessAborted(sig, sigAborted) == IF sig /\ sigAborted THEN 0 ELSE 1

\* Line 30 calls exec(context) before the signal is looked at (lines 35-47).
Invocations(sig, sigAborted) == 1

\* RaceStart without the check of lines 44-47 for an already aborted signal
RaceStartNoAbortedCheck(sig, sigAborted, execP) ==
  IF ~sig THEN execP
  ELSE IF IsSettled(execP) THEN execP
  ELSE Pending

\* The promise awaited at lines 35-53 as it stands when the synchronous part
\* of the call ends.  Without a signal it is execPromise itself.  With a
\* signal it is the race: a reaction of an already settled execPromise is
\* queued before that of the abort promise, so it wins even when the signal
\* was already aborted.
RaceStart(sig, sigAborted, execP) ==
  IF ~sig THEN execP
  ELSE IF IsSettled(execP) THEN execP
  ELSE IF sigAborted THEN Rejected(ErrorObj("AbortError"))
  ELSE Pending

WinnerAtStart(sig, sigAborted, execP) ==
  IF IsSettled(execP) THEN "exec"
  ELSE IF sig /\ sigAborted THEN "abort"
  ELSE "none"

\* The catch clause of lines 54-63 applied to the settled awaited promise:
\* threw is TRUE when the clause itself throws (reading .message of null).
CatchResult(p) ==
  IF p.state = "fulfilled"
  THEN [threw |-> FALSE, result |-> p.v, aborted |-> FALSE, error |-> UndefinedVal]
  ELSE IF ~CanReadProperty(p.v)
  THEN [threw |-> TRUE, result |-> UndefinedVal, aborted |-> FALSE,
        error |-> TypeErrorObj("Cannot read properties of " \o p.v.t)]
  ELSE IF MessageOf(p.v) = "AbortError"
  THEN [threw |-> FALSE, result |-> AbortedMarker, aborted |-> TRUE, error |-> UndefinedVal]
  ELSE [threw |-> FALSE, result |-> ErrorPayload(StringOf(p.v)), aborted |-> FALSE,
        error |-> UndefinedVal]

\* PushToolResult putting the entry at the head of the log
PushToolResultAtHead(log, tc, result) ==
  IF tc.toolUseId # 0
  THEN <<[role |-> "tool_result", toolUseId |-> tc.toolUseId, result |-> result]>> \o log
  ELSE log

\* contextWindow.pushToolResult, guarded by the correlation id (lines 66-68)
PushToolResult(log, tc, result) ==
  IF tc.toolUseId # 0
  THEN Append(log, [role |-> "tool_result", toolUseId |-> tc.toolUseId, result |-> result])
  ELSE log

\* the record pushed at lines 70-76
ResultEntry(tc, result, aborted) ==
  [toolId |-> tc.toolId, args |-> tc.args, result |-> result,
   toolUseId |-> tc.toolUseId, aborted |-> aborted]

\* lines 78-80: signal the abort to the caller or return the result
ExitOutcome(r) ==
  IF r.threw THEN Thrown(r.error)
  ELSE IF r.aborted THEN Thrown(ErrorObj("AbortError"))
  ELSE Returned(r.result)

\* RestoredMarker with the restore placed after the throw instead of in finally
RestoredMarkerNotOnThrow(saved, current, r) ==
  IF r.threw \/ r.aborted THEN current ELSE saved

\* the finally block of lines 81-84
RestoredMarker(saved, current, r) == saved

\* Lines 54-84, run in one synchronous piece once the awaited promise settled.
Complete(c, tc, saved, p) ==
  LET r == CatchResult(p) IN
  /\ contextWindow' = IF r.threw THEN contextWindow
                      ELSE PushToolResult(contextWindow, tc, r.result)
  /\ toolResults' = IF r.threw THEN toolResults
                    ELSE Append(toolResults, ResultEntry(tc, r.result, r.aborted))
  /\ outcome' = [outcome EXCEPT ![c] = ExitOutcome(r)]
  /\ pc' = [pc EXCEPT ![c] = "done"]

\* withToolCall, lines 19-53: the synchronous part up to the await.  The tool
\* returns a promise that is still pending or already settled.
Enter(c) ==
  /\ pc[c] = "idle"
  /\ IF c = 1 THEN TRUE ELSE pc[c - 1] # "idle"
  /\ \E useId \in {0, c}, sig \in BOOLEAN,
        execP \in {Pending} \cup Settlements :
       LET newId == generateNewToolExecutionId(nextToolExecutionId) IN
       /\ toolCall' = [toolCall EXCEPT ![c] = [toolId |-> c, args |-> "args", toolUseId |-> useId]]
       /\ hasSignal' = [hasSignal EXCEPT ![c] = sig]
       /\ prev' = [prev EXCEPT ![c] = currentToolExecutionId]
       /\ ownId' = [ownId EXCEPT ![c] = newId]
       /\ currentToolExecutionId' = newId
       /\ nextToolExecutionId' = nextToolExecutionId + 1
       /\ execPromise' = [execPromise EXCEPT ![c] = execP]
       /\ execCalls' = [execCalls EXCEPT ![c] = @ + Invocations(sig, signalAborted)]
       /\ awaited' = [awaited EXCEPT ![c] = RaceStart(sig, signalAborted, execP)]
       /\ winner' = [winner EXCEPT ![c] = WinnerAtStart(sig, signalAborted, execP)]
       /\ abortedOnEntry' = [abortedOnEntry EXCEPT ![c] = sig /\ signalAborted]
       /\ listeners' = IF sig /\ ~signalAborted THEN listeners \cup {c} ELSE listeners
       /\ pc' = [pc EXCEPT ![c] = "awaiting"]
  /\ UNCHANGED <<contextWindow, toolResults, signalAborted, outcome, factoryVars, runnerVars, conversationVars>>

\* withToolCall when exec(context) throws synchronously at line 30: the catch
\* clause, the recording and the finally block follow without any await.
EnterSyncThrow(c) ==
  /\ pc[c] = "idle"
  /\ IF c = 1 THEN TRUE ELSE pc[c - 1] # "idle"
  /\ \E useId \in {0, c}, sig \in BOOLEAN, e \in ThrownValues :
       LET newId == generateNewToolExecutionId(nextToolExecutionId)
           tc == [toolId |-> c, args |-> "args", toolUseId |-> useId]
       IN
       /\ toolCall' = [toolCall EXCEPT ![c] = tc]
       /\ hasSignal' = [hasSignal EXCEPT ![c] = sig]
       /\ prev' = [prev EXCEPT ![c] = currentToolExecutionId]
       /\ ownId' = [ownId EXCEPT ![c] = newId]
       /\ nextToolExecutionId' = nextToolExecutionId + 1
       /\ execCalls' = [execCalls EXCEPT ![c] = @ + Invocations(sig, signalAborted)]
       /\ awaited' = [awaited EXCEPT ![c] = Rejected(e)]
       /\ winner' = [winner EXCEPT ![c] = "sync"]
       /\ abortedOnEntry' = [abortedOnEntry EXCEPT ![c] = sig /\ signalAborted]
       /\ Complete(c, tc, currentToolExecutionId, Rejected(e))
       /\ currentToolExecutionId' =
            RestoredMarker(currentToolExecutionId, newId, CatchResult(Rejected(e)))
  /\ UNCHANGED <<signalAborted, listeners, execPromise, factoryVars, runnerVars, conversationVars>>

\* The tool's promise settles; it decides the awaited promise when that is
\* still open.  It may also settle after the call has finished (the loser
\* of the race keeps running).
ToolSettle(c) ==
  /\ pc[c] \in {"awaiting", "done"}
  /\ execPromise[c].state = "pending"
  /\ \E s \in Settlements :
       /\ execPromise' = [execPromise EXCEPT ![c] = s]
       /\ IF pc[c] = "awaiting" /\ awaited[c].state = "pending"
          THEN /\ awaited' = [awaited EXCEPT ![c] = s]
               /\ winner' = [winner EXCEPT ![c] = "exec"]
          ELSE UNCHANGED <<awaited, winner>>
  /\ UNCHANGED <<currentToolExecutionId, nextToolExecutionId, contextWindow,
                 toolResults, signalAborted, listeners, pc, toolCall, hasSignal,
                 prev, ownId, abortedOnEntry, outcome, execCalls, factoryVars,
                 runnerVars, conversationVars>>

\* onAbort (lines 39-43) for one registered call: reject the abort promise,
\* which decides the race when it is still open.
OnAbort(c, aw) ==
  IF c \in listeners /\ aw.state = "pending"
  THEN Rejected(ErrorObj("AbortError"))
  ELSE aw

\* The cancellation signal fires: every registered listener runs and is
\* removed.
SignalFire ==
  /\ ~signalAborted
  /\ signalAborted' = TRUE
  /\ awaited' = [c \in Calls |-> OnAbort(c, awaited[c])]
  /\ winner' = [c \in Calls |->
                  IF c \in listeners /\ awaited[c].state = "pending"
                  THEN "abort" ELSE winner[c]]
  /\ listeners' = {}
  /\ UNCHANGED <<currentToolExecutionId, nextToolExecutionId, contextWindow,
                 toolResults, pc, toolCall, hasSignal, prev, ownId,
                 execPromise, abortedOnEntry, outcome, execCalls, factoryVars,
                 runnerVars, conversationVars>>

\* The await of lines 36/52 resumes: lines 54-84.
Resume(c) ==
  /\ pc[c] = "awaiting"
  /\ IsSettled(awaited[c])
  /\ Complete(c, toolCall[c], prev[c], awaited[c])
  /\ currentToolExecutionId' =
       RestoredMarker(prev[c], currentToolExecutionId, CatchResult(awaited[c]))
  /\ UNCHANGED <<nextToolExecutionId, signalAborted, listeners, toolCall,
                 hasSignal, prev, ownId, execPromise, awaited, winner,
                 abortedOnEntry, execCalls, factoryVars, runnerVars, conversationVars>>

ExecNext ==
  \/ \E c \in Calls : Enter(c)
  \/ \E c \in Calls : EnterSyncThrow(c)
  \/ \E c \in Calls : ToolSettle(c)
  \/ SignalFire
  \/ \E c \in Calls : Resume(c)

\* ------------------------------------------------------ executor claims
RecordsOf(c) == {i \in DOMAIN toolResults : toolResults[i].toolId = c}

LogEntriesOf(c) == {i \in DOMAIN contextWindow : contextWindow[i].toolUseId = c}

HasRecord(c, result, aborted) ==
  \E i \in RecordsOf(c) :
    toolResults[i].result = result /\ toolResults[i].aborted = aborted

\* what the tool's settlement is worth as a result
RealResult(p) == IF p.state = "fulfilled" THEN p.v ELSE ErrorPayload(StringOf(p.v))

\* C1: every call that has returned or thrown left exactly one record in the
\* result sequence and, iff it carries a toolUseId, exactly one tool-result
\* in the conversation log.
C1_ExactlyOneRecord ==
  \A c \in Calls :
    pc[c] = "done" =>
      /\ Cardinality(RecordsOf(c)) = 1
      /\ Cardinality(LogEntriesOf(c)) = (IF toolCall[c].toolUseId # 0 THEN 1 ELSE 0)

AbortFiredWhilePending(c) ==
  /\ pc[c] = "awaiting"
  /\ hasSignal[c]
  /\ signalAborted
  /\ execPromise[c].state = "pending"

AbortedOutcome(c) ==
  /\ pc[c] = "done"
  /\ outcome[c] = Thrown(ErrorObj("AbortError"))
  /\ HasRecord(c, AbortedMarker, TRUE)

\* C2: a call with a signal that is aborted while its tool is still pending
\* eventually ends with an aborted record and the abort signalled to the
\* caller, whether or not the tool ever settles.
C2_AbortWinsEventually ==
  \A c \in Calls : AbortFiredWhilePending(c) ~> AbortedOutcome(c)

C2_Witness ==
  \E c \in Calls : AbortedOutcome(c) /\ hasSignal[c] /\ execPromise[c].state = "pending"

\* C3: a call whose tool settled before the signal fired returns the tool's
\* real result and records aborted = FALSE.
C3_SettledFirstIsReal ==
  \A c \in Calls :
    (pc[c] = "done" /\ winner[c] = "exec") =>
      /\ outcome[c] = Returned(RealResult(execPromise[c]))
      /\ HasRecord(c, RealResult(execPromise[c]), FALSE)

\* C4: a call entered with its signal already aborted ends aborted, whatever
\* the promise returned by its tool does: abort marker recorded with
\* aborted = TRUE and the abort signalled to the caller.
C4_AbortedOnEntryAborts ==
  \A c \in Calls :
    (pc[c] = "done" /\ abortedOnEntry[c] /\ execPromise[c].state # "none") =>
      AbortedOutcome(c)

\* C5: whatever the tool throws or rejects with, other than the cancellation
\* error itself, is returned as an error payload and recorded with
\* aborted = FALSE; nothing is thrown to the caller.
C5_ToolErrorIsPayload ==
  \A c \in Calls :
    (/\ pc[c] = "done"
     /\ winner[c] \in {"exec", "sync"}
     /\ awaited[c].state = "rejected"
     /\ awaited[c].v # ErrorObj("AbortError")) =>
      /\ outcome[c] = Returned(ErrorPayload(StringOf(awaited[c].v)))
      /\ HasRecord(c, ErrorPayload(StringOf(awaited[c].v)), FALSE)

GeneratedIds == {ownId[c] : c \in {d \in Calls : pc[d] # "idle"}}

\* C6: a call sets the marker to a fresh id on entry and, on every exit
\* path, puts back the value the marker had just before the call.
C6_MarkerRestored ==
  [][\A c \in Calls :
       /\ (pc[c] = "idle" /\ pc'[c] = "awaiting") =>
            /\ currentToolExecutionId' = ownId'[c]
            /\ currentToolExecutionId' \notin GeneratedIds \cup {0, currentToolExecutionId}
            /\ prev'[c] = currentToolExecutionId
       /\ (pc[c] = "awaiting" /\ pc'[c] = "done") => currentToolExecutionId' = prev[c]
       /\ (pc[c] = "idle" /\ pc'[c] = "done") =>
            currentToolExecutionId' = currentToolExecutionId]_vars

\* an inner call left by the abort path while the outer call is in flight
C6_Witness ==
  \E c, p \in Calls :
    /\ c # p
    /\ pc[p] = "awaiting"
    /\ pc[c] = "done"
    /\ outcome[c].kind = "thrown"
    /\ prev[c] = ownId[p]
    /\ ownId[p] # 0
    /\ currentToolExecutionId = ownId[p]

\* a step in which call c leaves withToolCall
Exits(c) == pc[c] # "done" /\ pc'[c] = "done"

\* C21: a call that signals the abort to its caller has, in the same
\* synchronous run, appended the tool-result and the aborted record and put
\* the marker back; every other call returns the value it recorded and does
\* not throw.
C21_RecordedBeforeSignalled ==
  [][\A c \in Calls :
       Exits(c) =>
         LET tc == toolCall'[c] IN
         IF outcome'[c] = Thrown(ErrorObj("AbortError"))
         THEN /\ toolResults' = Append(toolResults, ResultEntry(tc, AbortedMarker, TRUE))
              /\ tc.toolUseId # 0 =>
                   contextWindow' =
                     Append(contextWindow, [role |-> "tool_result",
                                            toolUseId |-> tc.toolUseId,
                                            result |-> AbortedMarker])
              /\ currentToolExecutionId' = prev'[c]
         ELSE /\ outcome'[c].kind = "returned"
              /\ toolResults' = Append(toolResults, ResultEntry(tc, outcome'[c].v, FALSE))]_vars

\* C27: whenever no call is in flight the marker has the value it had before
\* the first call, also after calls that overlapped.
C27_MarkerBackAtRest ==
  (\A c \in Calls : pc[c] # "awaiting") => currentToolExecutionId = 0

\* C28: a record with aborted = TRUE, and the abort signalled to the caller,
\* exist only for a call that was given a signal that has fired.
C28_AbortedOnlyBySignal ==
  \A c \in Calls :
    (pc[c] = "done" /\ (outcome[c] = Thrown(ErrorObj("AbortError"))
                         \/ \E i \in RecordsOf(c) : toolResults[i].aborted)) =>
      (hasSignal[c] /\ signalAborted)

\* C29: a call that has begun has invoked its tool exactly once, whether or
\* not its signal was already aborted on entry; a call not begun has not.
C29_ToolInvokedOnce ==
  \A c \in Calls : execCalls[c] = (IF pc[c] = "idle" THEN 0 ELSE 1)

\* a call entered with its signal aborted has ended aborted and its tool,
\* started all the same, has run to completion since
C29_Witness ==
  \E c \in Calls :
    /\ abortedOnEntry[c]
    /\ AbortedOutcome(c)
    /\ execCalls[c] = 1
    /\ execPromise[c].state = "fulfilled"

\* ------------------------------------------------ createExecutionAdapter
NoOptions == [type |-> "undefined", autoFallback |-> "undefined",
              projectRoot |-> FALSE, sandboxId |-> FALSE]

FactoryInit ==
  /\ fpc = "idle"
  /\ fOptions = NoOptions
  /\ fSteps = << >>
  /\ fallbackReason = ""
  /\ fFailure = UndefinedVal
  /\ fResult = NoOutcome

\* the options a caller can pass: absent fields take the defaults of lines 62-66
OptionsSet ==
  [type : {"undefined", "docker", "e2b", "local"},
   autoFallback : {"undefined", "true", "false"},
   projectRoot : BOOLEAN,
   sandboxId : BOOLEAN]

\* const { type = 'docker' } = options
TypeOf(o) == IF o.type = "undefined" THEN "docker" ELSE o.type

\* const { autoFallback = true } = options
AutoFallbackOf(o) == o.autoFallback # "false"

\* what createExecutionAdapter resolves with: { adapter, type }
Adapter(type) == JsVal("adapter", type)

\* one backend step and how it ended
Step(name, res) == [step |-> name, res |-> res]

\* OnFailure that rethrows whatever the autoFallback option says
OnFailureRethrow(o, error) == Thrown(error)

\* OnFailure that falls back whatever the autoFallback option says
OnFailureAlwaysLocal(o, error) == Returned(Adapter("local"))

\* Lines 145-171: the catch clause of the creation attempt, then the local
\* fallback.  LocalExecutionAdapter is always constructible.
OnFailure(o, error) ==
  IF ~AutoFallbackOf(o) THEN Thrown(error) ELSE Returned(Adapter("local"))

\* A failure inside the try block at lines 74-144 ends the call.
Fail(o, error, reason, steps) ==
  /\ fSteps' = steps
  /\ fallbackReason' = reason
  /\ fFailure' = error
  /\ fResult' = OnFailure(o, error)
  /\ fpc' = "done"

\* the call ends by returning an adapter of the requested type
Succeed(type, steps) ==
  /\ fSteps' = steps
  /\ fResult' = Returned(Adapter(type))
  /\ fpc' = "done"
  /\ UNCHANGED <<fallbackReason, fFailure>>

\* the call goes on to the next await
Goto(label, steps) ==
  /\ fSteps' = steps
  /\ fpc' = label
  /\ UNCHANGED <<fallbackReason, fFailure, fResult>>

\* Lines 56-92 (docker), 130-138 (e2b), 165-171 (local): the synchronous part
\* up to the first await.
CreateExecutionAdapter ==
  /\ fpc = "idle"
  /\ \E o \in OptionsSet :
       /\ fOptions' = o
       /\ CASE TypeOf(o) = "docker" ->
                 IF ~o.projectRoot
                 THEN Fail(o, ErrorObj("projectRoot must be provided when creating a Docker execution adapter"),
                           "", << >>)
                 ELSE Goto("isDockerAvailable", << >>)
            [] TypeOf(o) = "e2b" ->
                 IF ~o.sandboxId
                 THEN Fail(o, ErrorObj("E2B sandbox ID is required"),
                           "E2B sandbox ID is required", << >>)
                 ELSE Goto("e2bCreate", << >>)
            [] OTHER -> Succeed("local", << >>)
  /\ UNCHANGED <<execVars, runnerVars, conversationVars>>

\* Lines 92-96: containerManager.isDockerAvailable() settles.
IsDockerAvailable ==
  /\ fpc = "isDockerAvailable"
  /\ \E res \in {"true", "false", "throws"} :
       LET steps == Append(fSteps, Step("isDockerAvailable", res)) IN
       CASE res = "true" -> Goto("ensureContainer", steps)
         [] res = "false" -> Fail(fOptions, ErrorObj("Docker is not available on this system"),
                                  "Docker is not available on this system", steps)
         [] OTHER -> Fail(fOptions, ErrorObj("isDockerAvailable failed"), "", steps)
  /\ UNCHANGED <<execVars, runnerVars, conversationVars, fOptions>>

\* Lines 99-110: containerManager.ensureContainer() settles; with a container
\* the adapter is constructed and the smoke-test command is started.
EnsureContainer ==
  /\ fpc = "ensureContainer"
  /\ \E res \in {"container", "null", "throws"}, ctor \in {"ok", "throws"} :
       LET steps == Append(fSteps, Step("ensureContainer", res)) IN
       CASE res = "container" ->
              IF ctor = "ok"
              THEN Goto("executeCommand", Append(steps, Step("newDockerExecutionAdapter", "ok")))
              ELSE Fail(fOptions, ErrorObj("DockerExecutionAdapter failed"), "",
                        Append(steps, Step("newDockerExecutionAdapter", "throws")))
         [] res = "null" -> /\ ctor = "ok"
                            /\ Fail(fOptions, ErrorObj("Failed to start Docker container"),
                                    "Failed to start Docker container", steps)
         [] OTHER -> /\ ctor = "ok"
                     /\ Fail(fOptions, ErrorObj("ensureContainer failed"), "", steps)
  /\ UNCHANGED <<execVars, runnerVars, conversationVars, fOptions>>

\* the inner catch of lines 115-118 overwrites the reason and rethrows
SmokeReason(cmdError) == "Docker command execution failed: " \o MessageOf(cmdError)

\* the exit-code test of line 111 without the comparison with 0
SmokeTestPassedAnyExit(res) == res # "throws"

\* line 111: the smoke test passes on exit code 0 only
SmokeTestPassed(res) == res = "0"

\* Lines 110-127: the smoke-test command settles.
ExecuteCommand ==
  /\ fpc = "executeCommand"
  /\ \E res \in {"0", "1", "throws"} :
       LET steps == Append(fSteps, Step("executeCommand", res))
           notResponding == ErrorObj("Docker container is not responding to commands")
           cmdFailed == ErrorObj("executeCommand failed")
       IN
       CASE SmokeTestPassed(res) -> Succeed("docker", steps)
         [] res # "throws" -> Fail(fOptions, notResponding, SmokeReason(notResponding), steps)
         [] OTHER -> Fail(fOptions, cmdFailed, SmokeReason(cmdFailed), steps)
  /\ UNCHANGED <<execVars, runnerVars, conversationVars, fOptions>>

\* Lines 138-143: E2BExecutionAdapter.create settles.
E2BCreate ==
  /\ fpc = "e2bCreate"
  /\ \E res \in {"ok", "throws"} :
       LET steps == Append(fSteps, Step("e2bCreate", res)) IN
       IF res = "ok" THEN Succeed("e2b", steps)
       ELSE Fail(fOptions, ErrorObj("E2B create failed"), "", steps)
  /\ UNCHANGED <<execVars, runnerVars, conversationVars, fOptions>>

FactoryNext ==
  \/ CreateExecutionAdapter
  \/ IsDockerAvailable
  \/ EnsureContainer
  \/ ExecuteCommand
  \/ E2BCreate


\* ------------------------------------------------------- factory claims
StepFailed(st) == st.res \notin {"true", "container", "ok", "0"}

Last(seq) == seq[Len(seq)]

\* the requested docker or e2b backend failed at one of its steps
BackendStepFailed ==
  /\ fpc = "done"
  /\ TypeOf(fOptions) \in {"docker", "e2b"}
  /\ Len(fSteps) > 0
  /\ StepFailed(Last(fSteps))

\* C7: with auto-fallback enabled a failure of any step of the requested
\* docker or e2b backend ends in a returned Local adapter of type local.
C7_FallbackToLocal ==
  (BackendStepFailed /\ AutoFallbackOf(fOptions)) => fResult = Returned(Adapter("local"))

C7_Witness ==
  /\ BackendStepFailed
  /\ AutoFallbackOf(fOptions)
  /\ Last(fSteps) = Step("executeCommand", "1")
  /\ fResult = Returned(Adapter("local"))

\* C8: with auto-fallback disabled a failed creation throws the failure it
\* caught, unchanged, and never returns a Local adapter for a docker or e2b
\* request.
C8_NoFallbackRethrows ==
  (fpc = "done" /\ ~AutoFallbackOf(fOptions)) =>
    /\ fFailure # UndefinedVal => fResult = Thrown(fFailure)
    /\ TypeOf(fOptions) \in {"docker", "e2b"} => fResult # Returned(Adapter("local"))

C8_Witness ==
  /\ fpc = "done"
  /\ ~AutoFallbackOf(fOptions)
  /\ Len(fSteps) > 0
  /\ Last(fSteps) = Step("isDockerAvailable", "false")
  /\ fResult = Thrown(ErrorObj("Docker is not available on this system"))

\* C9: a docker request without projectRoot fails at once and is never
\* answered with a Local adapter, with auto-fallback enabled or disabled.
C9_MissingProjectRootFails ==
  (fpc = "done" /\ TypeOf(fOptions) = "docker" /\ ~fOptions.projectRoot) =>
    /\ fSteps = << >>
    /\ fResult.kind = "thrown"

DockerSteps ==
  <<Step("isDockerAvailable", "true"), Step("ensureContainer", "container"),
    Step("newDockerExecutionAdapter", "ok"), Step("executeCommand", "0")>>

\* C10: type docker is returned only after the probe returned true, then
\* ensureContainer returned a container, then the smoke test exited with 0;
\* no step is run after a failed one.
C10_DockerOnlyAfterChecks ==
  /\ (fResult.kind = "returned" /\ fResult.v = Adapter("docker")) => fSteps = DockerSteps
  /\ \A i \in 1..(Len(fSteps) - 1) : ~StepFailed(fSteps[i])

C10_Witness ==
  /\ fResult = Returned(Adapter("docker"))
  /\ fSteps = DockerSteps

\* ------------------------------------------------------------ processQuery
\* sessionState.abortController: absent, or a controller with its signal
NoController == [id |-> 0, aborted |-> FALSE]

\* new AbortController(): the n-th controller of the session, not aborted
NewController(n) == [id |-> n, aborted |-> FALSE]

\* the ProcessQueryResult fields; "" stands for an absent string field and
\* hasResult tells whether the result field is present
NoQueryResult ==
  [kind |-> "none", error |-> "", response |-> "", done |-> FALSE, aborted |-> FALSE,
   hasResult |-> FALSE, toolResults |-> << >>, iterations |-> 0, thrown |-> UndefinedVal]

\* a call in flight: where it stands ("idle", "queued" once the caller has
\* appended the query, "model", "tool", "returned"),
\* the driver's toolResults and iterations, the tool-requesting responses so
\* far, the tool requests still to execute, the tool call being executed, the
\* tool's promise, the promise withToolCall awaits, the
\* PROCESSING_COMPLETED events emitted and the payload of the last one
NoEvent == [sessionId |-> 0, response |-> ""]

NewTurn ==
  [pc |-> "idle", toolResults |-> << >>, iterations |-> 0, toolRounds |-> 0,
   requestsLeft |-> 0, toolCall |-> NoToolCall, execPromise |-> NoPromise,
   awaited |-> NoPromise, emitted |-> 0, event |-> NoEvent]

RunnerInit ==
  /\ abortFlags = [s \in Sessions |-> FALSE]
  /\ abortController = [s \in Sessions |-> NoController]
  /\ controllersCreated = [s \in Sessions |-> 0]
  /\ sessionLog = [s \in Sessions |-> << >>]
  /\ turns = [s \in Sessions |-> 0]
  /\ turn = [s \in Sessions |-> NewTurn]
  /\ queryResult = [s \in Sessions |-> NoQueryResult]
  /\ abortRequests = [s \in Sessions |-> 0]
  /\ requestsSeen = [s \in Sessions |-> 0]

\* the abort registry: isSessionAborted and clearSessionAborted
isSessionAborted(flags, sessionId) == flags[sessionId]

clearSessionAborted(flags, sessionId) == [flags EXCEPT ![sessionId] = FALSE]

setSessionAborted(flags, sessionId) == [flags EXCEPT ![sessionId] = TRUE]

\* lines 152-160: the result for a session without id
\* MissingIdResult reporting the call as aborted
MissingIdResultAborted ==
  [NoQueryResult EXCEPT !.kind = "returned", !.error = "Missing sessionId in session state",
                        !.done = TRUE, !.aborted = TRUE]

MissingIdResult ==
  [NoQueryResult EXCEPT !.kind = "returned",
                        !.error = "Missing sessionId in session state",
                        !.done = TRUE, !.aborted = FALSE]

\* lines 166-171: the result of the short-circuit for an aborted session
FastPathResult ==
  [NoQueryResult EXCEPT !.kind = "returned",
                        !.response = "Operation aborted by user",
                        !.done = TRUE, !.aborted = TRUE]

\* lines 227-236: the result after the driver returned
\* SuccessResult handing over the last record only
SuccessResultLastRecord(response, results, aborted, iters) ==
  [NoQueryResult EXCEPT !.kind = "returned", !.response = response, !.done = TRUE,
                        !.aborted = aborted, !.hasResult = TRUE, !.iterations = iters,
                        !.toolResults = IF Len(results) > 1
                                        THEN <<results[Len(results)]>> ELSE results]

\* SuccessResult without the driver's iteration counter
SuccessResultNoIterations(response, results, aborted, iters) ==
  [NoQueryResult EXCEPT !.kind = "returned", !.response = response, !.done = TRUE,
                        !.aborted = aborted, !.hasResult = TRUE, !.toolResults = results]

SuccessResult(response, results, aborted, iters) ==
  [NoQueryResult EXCEPT !.kind = "returned", !.response = response, !.done = TRUE,
                        !.aborted = aborted, !.hasResult = TRUE,
                        !.toolResults = results, !.iterations = iters]

\* lines 237-246: the result built by the catch clause
ErrorResult(error, flags, sessionId) ==
  [NoQueryResult EXCEPT !.kind = "returned", !.error = MessageOf(error), !.done = TRUE,
                        !.aborted = isSessionAborted(flags, sessionId)]

\* an exception that leaves processQuery: the returned promise rejects
RejectedResult(error) == [NoQueryResult EXCEPT !.kind = "rejected", !.thrown = error]

\* line 174 and line 214: the flag of this session is cleared
\* FlagsAfterAbort without the clearSessionAborted call
FlagsAfterAbortKept(flags, sessionId) == flags

\* FlagsAfterAbort clearing the whole registry
FlagsAfterAbortAll(flags, sessionId) == [x \in DOMAIN flags |-> FALSE]

FlagsAfterAbort(flags, sessionId) == clearSessionAborted(flags, sessionId)

\* conversation log entries
UserEntry(query) == [role |-> "user", toolUseId |-> 0, result |-> JsVal("string", query)]

ToolUseEntry(useId) == [role |-> "assistant", toolUseId |-> useId, result |-> JsVal("tool_use", "")]

AssistantEntry(text) == [role |-> "assistant", toolUseId |-> 0, result |-> JsVal("string", text)]

\* lines 188-189: the query is appended only after a non-user entry
\* NeedsUserEntry without the look at the last entry
NeedsUserEntryAlways(log) == TRUE

NeedsUserEntry(log) == Len(log) = 0 \/ log[Len(log)].role # "user"

\* lines 187-191
WithUserEntry(log, query) == IF NeedsUserEntry(log) THEN Append(log, UserEntry(query)) ELSE log

\* the query of the n-th call on a session
QueryOf(n) == IF n = 1 THEN "q1" ELSE "q2"

\* what the model collaborator answers with, and what it fails with
FinalText == "answer"

ModelFailure == ErrorObj("model failed")

ListenerFailure == ErrorObj("listener failed")

\* The driver looks for an abort at the top of every iteration.
AbortObserved(flags, ctl, sessionId) == isSessionAborted(flags, sessionId) \/ ctl.aborted

\* the call ends: its promise settles with res
EndCall(s, t, log, flags, ctl, created, res) ==
  /\ abortFlags' = flags
  /\ abortController' = [abortController EXCEPT ![s] = ctl]
  /\ controllersCreated' = [controllersCreated EXCEPT ![s] = created]
  /\ sessionLog' = [sessionLog EXCEPT ![s] = log]
  /\ turn' = [turn EXCEPT ![s] = [t EXCEPT !.pc = "returned"]]
  /\ queryResult' = [queryResult EXCEPT ![s] = res]
  /\ requestsSeen' = [requestsSeen EXCEPT ![s] = abortRequests[s]]

\* the call goes on to its next await
Await(s, t, log, ctl, created) ==
  /\ abortController' = [abortController EXCEPT ![s] = ctl]
  /\ controllersCreated' = [controllersCreated EXCEPT ![s] = created]
  /\ sessionLog' = [sessionLog EXCEPT ![s] = log]
  /\ turn' = [turn EXCEPT ![s] = t]
  /\ UNCHANGED <<abortFlags, queryResult, requestsSeen>>

\* Emit without the call of AgentEvents.emit
EmitNothing(t, sessionId, response) == t

\* Lines 221-224: AgentEvents.emit(PROCESSING_COMPLETED, { sessionId, response })
Emit(t, sessionId, response) ==
  [t EXCEPT !.emitted = @ + 1, !.event = [sessionId |-> sessionId, response |-> response]]

\* Lines 210-236: driver.run resolved with { response, toolResults, aborted }.
\* emitOk is FALSE when a listener of PROCESSING_COMPLETED throws, which
\* lands in the catch clause of lines 237-246.
AfterDriverRun(s, t, log, ctl, created, response, aborted, emitOk) ==
  LET flags1 == IF aborted THEN FlagsAfterAbort(abortFlags, s) ELSE abortFlags
      ctl1 == IF aborted THEN NewController(created + 1) ELSE ctl
      created1 == IF aborted THEN created + 1 ELSE created
      t1 == Emit(t, s, response)
      res == IF emitOk
             THEN SuccessResult(response, t.toolResults, aborted, t.iterations)
             ELSE ErrorResult(ListenerFailure, flags1, s)
  IN EndCall(s, t1, log, flags1, ctl1, created1, res)

\* Lines 237-246: driver.run rejected with error.
AfterDriverThrow(s, t, log, ctl, created, error) ==
  EndCall(s, t, log, abortFlags, ctl, created,
          IF CanReadProperty(error) THEN ErrorResult(error, abortFlags, s)
          ELSE RejectedResult(TypeErrorObj("Cannot read properties of " \o error.t)))

\* The top of the driver loop: stop on an observed abort, else query the model.
DriverLoop(s, t, log, ctl, created) ==
  IF AbortObserved(abortFlags, ctl, s)
  THEN \E emitOk \in BOOLEAN : AfterDriverRun(s, t, log, ctl, created, "", TRUE, emitOk)
  ELSE Await(s, [t EXCEPT !.pc = "model", !.iterations = @ + 1], log, ctl, created)

\* The driver appends the tool-use entry and hands the request to
\* withToolCall (lines 19-53) with the session's signal.
StartTool(s, t, log, ctl, created, left) ==
  LET useId == Len(log) + 1
      tc == [toolId |-> useId, args |-> "args", toolUseId |-> useId]
  IN \E execP \in {Pending} \cup Settlements :
       Await(s, [t EXCEPT !.pc = "tool", !.toolCall = tc, !.requestsLeft = left - 1,
                          !.execPromise = execP,
                          !.awaited = RaceStart(TRUE, ctl.aborted, execP)],
             Append(log, ToolUseEntry(useId)), ctl, created)

CanBegin(s, calls) ==
  turn[s].pc \in {"idle", "queued", "returned"} /\ turns[s] + 1 \in calls

\* processQuery, lines 148-160, for a session state without id
ProcessQueryMissingId(s, calls) ==
  /\ CanBegin(s, calls)
  /\ turns' = [turns EXCEPT ![s] = @ + 1]
  /\ EndCall(s, NewTurn, sessionLog[s], abortFlags, abortController[s],
             controllersCreated[s], MissingIdResult)
  /\ UNCHANGED <<abortRequests, execVars, factoryVars, conversationVars>>

\* processQuery, lines 162-178, for a session whose abort flag is set
ProcessQueryFastPath(s, calls) ==
  /\ CanBegin(s, calls)
  /\ isSessionAborted(abortFlags, s)
  /\ turns' = [turns EXCEPT ![s] = @ + 1]
  /\ EndCall(s, NewTurn, sessionLog[s], FlagsAfterAbort(abortFlags, s),
             NewController(controllersCreated[s] + 1), controllersCreated[s] + 1,
             FastPathResult)
  /\ UNCHANGED <<abortRequests, execVars, factoryVars, conversationVars>>

\* processQuery, lines 180-210: the normal path up to its first await.
\* logOk is FALSE when reading or appending to the conversation log throws.
ProcessQuery(s, calls) ==
  /\ CanBegin(s, calls)
  /\ ~isSessionAborted(abortFlags, s)
  /\ turns' = [turns EXCEPT ![s] = @ + 1]
  /\ LET absent == abortController[s] = NoController
         created == IF absent THEN controllersCreated[s] + 1 ELSE controllersCreated[s]
         ctl == IF absent THEN NewController(created) ELSE abortController[s]
     IN \E logOk \in BOOLEAN :
          IF logOk
          THEN DriverLoop(s, NewTurn, WithUserEntry(sessionLog[s], QueryOf(turns[s] + 1)),
                          ctl, created)
          ELSE EndCall(s, NewTurn, sessionLog[s], abortFlags, ctl, created,
                       RejectedResult(TypeErrorObj("contextWindow failed")))
  /\ UNCHANGED <<abortRequests, execVars, factoryVars, conversationVars>>

\* The model collaborator answers the query of this iteration.
ModelRespond(s, toolIterations, requestCounts) ==
  /\ turn[s].pc = "model"
  /\ LET t == turn[s]
         log == sessionLog[s]
         ctl == abortController[s]
         created == controllersCreated[s]
     IN \/ \E emitOk \in BOOLEAN :
             AfterDriverRun(s, t, log, ctl, created, FinalText, FALSE, emitOk)
        \/ /\ t.iterations \in toolIterations
           /\ \E n \in requestCounts :
                StartTool(s, [t EXCEPT !.toolRounds = @ + 1], log, ctl, created, n)
        \/ AfterDriverThrow(s, t, log, ctl, created, ModelFailure)
  /\ UNCHANGED <<turns, abortRequests, execVars, factoryVars, conversationVars>>

\* The promise of the running tool settles.
TurnToolSettle(s) ==
  /\ turn[s].pc = "tool"
  /\ turn[s].execPromise.state = "pending"
  /\ \E p \in Settlements :
       turn' = [turn EXCEPT ![s].execPromise = p,
                            ![s].awaited = IF @.state = "pending" THEN p ELSE @]
  /\ UNCHANGED <<abortFlags, abortController, controllersCreated, sessionLog, turns,
                 queryResult, abortRequests, requestsSeen, execVars, factoryVars, conversationVars>>

\* An external cancellation request for the session: the flag is set and the
\* session's controller, when there is one, is aborted; the onAbort listener
\* (lines 39-43) of a running tool decides its race when that is still open.
AbortRequest(s, numbers) ==
  /\ abortRequests[s] + 1 \in numbers
  /\ abortRequests' = [abortRequests EXCEPT ![s] = @ + 1]
  /\ abortFlags' = setSessionAborted(abortFlags, s)
  /\ abortController' =
       [abortController EXCEPT ![s] = IF @ = NoController THEN @ ELSE [@ EXCEPT !.aborted = TRUE]]
  /\ turn' = [turn EXCEPT ![s].awaited =
                IF turn[s].pc = "tool" /\ @.state = "pending" /\ ~abortController[s].aborted
                THEN Rejected(ErrorObj("AbortError")) ELSE @]
  /\ UNCHANGED <<controllersCreated, sessionLog, turns, queryResult, requestsSeen,
                 execVars, factoryVars, conversationVars>>

\* withToolCall resumes (lines 54-84) and the driver goes on: it stops on the
\* abort signalled by the executor, lets any other exception through, and
\* otherwise runs the next request or the next iteration.
TurnToolResume(s) ==
  /\ turn[s].pc = "tool"
  /\ IsSettled(turn[s].awaited)
  /\ LET t == turn[s]
         r == CatchResult(t.awaited)
         out == ExitOutcome(r)
         log == IF r.threw THEN sessionLog[s]
                ELSE PushToolResult(sessionLog[s], t.toolCall, r.result)
         t1 == IF r.threw THEN t
               ELSE [t EXCEPT !.toolResults =
                       Append(@, ResultEntry(t.toolCall, r.result, r.aborted))]
         ctl == abortController[s]
         created == controllersCreated[s]
     IN IF out.kind = "thrown"
        THEN IF MessageOf(out.v) = "AbortError"
             THEN \E emitOk \in BOOLEAN :
                    AfterDriverRun(s, t1, log, ctl, created, "", TRUE, emitOk)
             ELSE AfterDriverThrow(s, t1, log, ctl, created, out.v)
        ELSE IF t.requestsLeft > 0
             THEN StartTool(s, t1, log, ctl, created, t.requestsLeft)
             ELSE DriverLoop(s, t1, log, ctl, created)
  /\ UNCHANGED <<turns, abortRequests, execVars, factoryVars, conversationVars>>

\* cli.ts line 286: the caller appends the query before it calls processQuery
CallerPushUser(s, calls) ==
  /\ turn[s].pc \in {"idle", "returned"}
  /\ turns[s] + 1 \in calls
  /\ sessionLog' = [sessionLog EXCEPT ![s] = Append(@, UserEntry(QueryOf(turns[s] + 1)))]
  /\ turn' = [turn EXCEPT ![s].pc = "queued"]
  /\ UNCHANGED <<abortFlags, abortController, controllersCreated, turns,
                 queryResult, abortRequests, requestsSeen, execVars, factoryVars, conversationVars>>

\* cli.ts lines 345-357: the caller appends the response it was given
CallerPushAssistant(s) ==
  /\ turn[s].pc = "returned"
  /\ queryResult[s].kind = "returned"
  /\ queryResult[s].error = ""
  /\ queryResult[s].response # ""
  /\ sessionLog' = [sessionLog EXCEPT ![s] = Append(@, AssistantEntry(queryResult[s].response))]
  /\ turn' = [turn EXCEPT ![s].pc = "idle"]
  /\ UNCHANGED <<abortFlags, abortController, controllersCreated, turns,
                 queryResult, abortRequests, requestsSeen, execVars, factoryVars, conversationVars>>

\* Successive calls on one session; the model asks for at most one tool, in
\* the first iteration of a turn.
RunnerNext ==
  \/ \E s \in RunnerSessions : ProcessQueryMissingId(s, RunnerCalls)
  \/ \E s \in RunnerSessions : ProcessQueryFastPath(s, RunnerCalls)
  \/ \E s \in RunnerSessions : ProcessQuery(s, RunnerCalls)
  \/ \E s \in RunnerSessions : ModelRespond(s, FirstIteration, SingleRequest)
  \/ \E s \in RunnerSessions : TurnToolSettle(s)
  \/ \E s \in RunnerSessions : TurnToolResume(s)
  \/ \E s \in RunnerSessions : AbortRequest(s, AbortNumbers)
  \/ \E s \in RunnerSessions : CallerPushUser(s, RunnerCalls)
  \/ \E s \in RunnerSessions : CallerPushAssistant(s)

\* One call on one session, with several iterations and several requests in
\* a response.
TurnNext ==
  \/ \E s \in RunnerSessions : ProcessQueryFastPath(s, FirstCall)
  \/ \E s \in RunnerSessions : ProcessQuery(s, FirstCall)
  \/ \E s \in RunnerSessions : ModelRespond(s, ToolIterations, RequestCounts)
  \/ \E s \in RunnerSessions : TurnToolSettle(s)
  \/ \E s \in RunnerSessions : TurnToolResume(s)
  \/ \E s \in RunnerSessions : AbortRequest(s, AbortNumbers)
  \/ \E s \in RunnerSessions : CallerPushUser(s, FirstCall)
  \/ \E s \in RunnerSessions : CallerPushAssistant(s)

\* ------------------------------------------------------ claims: processQuery

\* a step in which a processQuery call of session s settles
CallEnds(s) ==
  turn'[s].pc = "returned" /\ (turn[s].pc # "returned" \/ turns'[s] # turns[s])

\* C11: processQuery on a session state without id returns at once an error
\* result with aborted=false, and leaves the log, the token and every abort
\* flag as they were; the model is not queried and nothing is emitted.
C11_MissingIdNoEffect ==
  [][\A s \in RunnerSessions :
       ProcessQueryMissingId(s, RunnerCalls) =>
         /\ queryResult'[s].kind = "returned"
         /\ queryResult'[s].error # ""
         /\ queryResult'[s].done
         /\ ~queryResult'[s].aborted
         /\ sessionLog' = sessionLog
         /\ abortController' = abortController
         /\ controllersCreated' = controllersCreated
         /\ abortFlags' = abortFlags
         /\ turn'[s].iterations = 0
         /\ turn'[s].emitted = 0]_vars

\* a call without id made while the abort flag is set and a turn has left a
\* log and a token behind
C11_Witness ==
  /\ turn[1].pc = "returned"
  /\ queryResult[1].error = "Missing sessionId in session state"
  /\ abortFlags[1]
  /\ Len(sessionLog[1]) > 0
  /\ abortController[1] # NoController

\* C12: a call that begins with the session's abort flag set returns
\* aborted=true with "Operation aborted by user", runs no driver and appends
\* nothing to the log; when it returns the flag is cleared and the token is a
\* fresh one that is not aborted.
C12_FastPath ==
  [][\A s \in RunnerSessions :
       ProcessQueryFastPath(s, RunnerCalls) =>
         /\ queryResult'[s].kind = "returned"
         /\ queryResult'[s].aborted
         /\ queryResult'[s].response = "Operation aborted by user"
         /\ sessionLog' = sessionLog
         /\ turn'[s].iterations = 0
         /\ turn'[s].toolRounds = 0
         /\ ~abortFlags'[s]
         /\ abortController'[s] # abortController[s]
         /\ abortController'[s].id > controllersCreated[s]
         /\ ~abortController'[s].aborted]_vars

\* the fast path taken on a session whose earlier turn left an aborted token
C12_Witness ==
  /\ turn[1].pc = "returned"
  /\ queryResult[1] = FastPathResult
  /\ turns[1] = 2
  /\ abortController[1].id = 2
  /\ Len(sessionLog[1]) > 0

\* C13: whenever a call returns aborted=true, on the fast path, after a
\* driver-reported abort or from the catch clause, the flag is cleared and
\* the token replaced by a fresh one that is not aborted.
C13_AbortedReturnClearsFlag ==
  [][\A s \in RunnerSessions :
       (CallEnds(s) /\ queryResult'[s].kind = "returned" /\ queryResult'[s].aborted) =>
         /\ ~abortFlags'[s]
         /\ ~abortController'[s].aborted
         /\ abortController'[s] # abortController[s]]_vars

\* C14: after a call has returned aborted=true, the next call on the session
\* takes the fast path only if a new abort request was made in between.
C14_AbortConsumedOnce ==
  [][\A s \in RunnerSessions :
       (/\ ProcessQueryFastPath(s, RunnerCalls)
        /\ turns[s] > 0
        /\ queryResult[s].kind = "returned"
        /\ queryResult[s].aborted) =>
         abortRequests[s] > requestsSeen[s]]_vars

\* C15: the normal path appends the query as a user entry only to a log that
\* is empty or does not end with a user entry, so it never leaves two user
\* entries at the end of the log.
C15_IdempotentAppend ==
  [][\A s \in RunnerSessions :
       ProcessQuery(s, RunnerCalls) =>
         LET log == sessionLog[s]
             new == sessionLog'[s]
         IN /\ new # log =>
                 /\ IF Len(log) = 0 THEN TRUE ELSE log[Len(log)].role # "user"
                 /\ new = Append(log, UserEntry(QueryOf(turns'[s])))
            /\ (Len(log) > 0 /\ log[Len(log)].role = "user") => new = log]_vars

\* the second call on a log that still ends with the first call's user entry
C15_Witness ==
  /\ turns[1] = 2
  /\ turn[1].pc = "model"
  /\ sessionLog[1] = <<UserEntry(QueryOf(1))>>

\* C16: on the normal path every exception becomes a returned error result;
\* the call never rejects.
C16_NeverRejects == \A s \in RunnerSessions : queryResult[s].kind # "rejected"

\* C17: the step in which a tool execution records aborted=true ends the
\* turn without another model query or tool execution, and the call's result
\* has aborted=true.
C17_AbortedToolEndsTurn ==
  [][\A s \in RunnerSessions :
       (/\ Len(turn'[s].toolResults) = Len(turn[s].toolResults) + 1
        /\ turn'[s].toolResults[Len(turn'[s].toolResults)].aborted) =>
         /\ turn'[s].pc = "returned"
         /\ turn'[s].iterations = turn[s].iterations
         /\ sessionLog'[s][Len(sessionLog'[s])].role = "tool_result"
         /\ queryResult'[s].kind = "returned"
         /\ queryResult'[s].aborted]_vars

\* C18: a turn that ends with a final answer reports as iterations the
\* tool-requesting responses plus one: 1 with an empty result sequence when
\* the first response is text, 2 with the tool's value recorded and
\* aborted=false after one tool round.
C18_IterationsCounted ==
  \A s \in RunnerSessions :
    (/\ turn[s].pc \notin {"model", "tool"}
     /\ queryResult[s].kind = "returned"
     /\ queryResult[s].hasResult
     /\ queryResult[s].response = FinalText) =>
      LET res == queryResult[s]
          n == Len(res.toolResults)
      IN /\ ~res.aborted
         /\ res.iterations = turn[s].toolRounds + 1
         /\ turn[s].toolRounds = 0 => (res.iterations = 1 /\ res.toolResults = << >>)
         /\ turn[s].toolRounds = 1 =>
              /\ res.iterations = 2
              /\ n >= 1
              /\ \A i \in 1..n : ~res.toolResults[i].aborted
              /\ turn[s].execPromise.state = "fulfilled" =>
                   res.toolResults[n].result = turn[s].execPromise.v

\* one successful tool round followed by the final answer
C18_Witness ==
  /\ turn[1].pc = "returned"
  /\ queryResult[1].response = FinalText
  /\ queryResult[1].iterations = 2
  /\ Len(queryResult[1].toolResults) = 1
  /\ queryResult[1].toolResults[1].result \in ToolValues
  /\ ~queryResult[1].aborted

\* C19: when the tool's own rejection is what withToolCall resumes with and no
\* abort is pending, the turn goes on: one record with an error payload and
\* aborted=false is added and the driver queries the model again.
C19_ToolThrowKeepsTurn ==
  [][\A s \in RunnerSessions :
       (/\ TurnToolResume(s)
        /\ turn[s].execPromise.state = "rejected"
        /\ turn[s].awaited = turn[s].execPromise
        /\ turn[s].execPromise.v # ErrorObj("AbortError")
        /\ ~AbortObserved(abortFlags, abortController[s], s)) =>
         /\ turn'[s].pc # "returned"
         /\ Len(turn'[s].toolResults) = Len(turn[s].toolResults) + 1
         /\ turn'[s].toolResults[Len(turn'[s].toolResults)].result.t = "errorPayload"
         /\ ~turn'[s].toolResults[Len(turn'[s].toolResults)].aborted]_vars

\* the tool-use entries of a log, one per executor call of the driver
IsToolUse(e) == e.role = "assistant" /\ e.toolUseId # 0

ToolUsesOf(log) == SelectSeq(log, IsToolUse)

\* C22: the result sequence a turn returns has one record per executor call
\* of the turn, from every iteration, in execution order, the aborted call
\* included.
C22_AllRecordsReturned ==
  \A s \in RunnerSessions :
    (/\ turn[s].pc \notin {"model", "tool"}
     /\ queryResult[s].kind = "returned"
     /\ queryResult[s].hasResult) =>
      LET records == queryResult[s].toolResults
          uses == ToolUsesOf(sessionLog[s])
      IN /\ Len(records) = Len(uses)
         /\ \A i \in 1..Len(records) : records[i].toolUseId = uses[i].toolUseId
         /\ \A i \in 1..Len(records) : records[i].aborted => i = Len(records)

\* two tool rounds, then the final answer with the records of both
C22_Witness ==
  /\ turn[1].pc = "returned"
  /\ queryResult[1].response = FinalText
  /\ turn[1].toolRounds = 2
  /\ Len(queryResult[1].toolResults) >= 2
  /\ queryResult[1].toolResults[1].result \in ToolValues

IsPrefix(a, b) == Len(a) <= Len(b) /\ SubSeq(b, 1, Len(a)) = a

\* every tool-result entry sits right after the tool-use entry it answers
Paired(log) ==
  \A i \in 1..Len(log) :
    log[i].role = "tool_result" =>
      IF i = 1 THEN FALSE
      ELSE IsToolUse(log[i - 1]) /\ log[i - 1].toolUseId = log[i].toolUseId

\* C23: within a turn every step only appends to the conversation log, and
\* every tool-result entry immediately follows the tool-use entry it
\* answers, with several requests in a response and with tool calls that
\* fail or are aborted.
C23_AppendOnlyPaired ==
  [][\A s \in RunnerSessions :
       /\ IsPrefix(sessionLog[s], sessionLog'[s])
       /\ Paired(sessionLog'[s])]_vars

\* one response with two requests: the first tool failed, the second was
\* aborted
C23_Witness ==
  /\ turn[1].toolRounds = 1
  /\ Len(sessionLog[1]) = 5
  /\ sessionLog[1][3].result.t = "errorPayload"
  /\ sessionLog[1][5].result = AbortedMarker

\* C24: every result processQuery returns carries the result log and the
\* iteration counter, so the records gathered before an error or abort
\* reach the caller.
C24_OneShape ==
  \A s \in RunnerSessions :
    (turn[s].pc = "returned" /\ queryResult[s].kind = "returned") =>
      /\ queryResult[s].hasResult
      /\ queryResult[s].toolResults = turn[s].toolResults
      /\ queryResult[s].iterations = turn[s].iterations

\* the driver returned in this call: a result built at lines 227-236, or the
\* error of a listener
DriverReturned(res) ==
  res.kind = "returned" /\ (res.hasResult \/ res.error = ListenerFailure.s)

\* C25: a call in which the driver returned has emitted the completion
\* notification exactly once, with the session id and the response, after
\* the abort flag was cleared; a call without id, on the fast path or whose
\* driver threw has emitted none.
C25_NotifiedOnce ==
  [][\A s \in RunnerSessions :
       CallEnds(s) =>
         LET res == queryResult'[s] IN
         IF DriverReturned(res)
         THEN /\ turn'[s].emitted = 1
              /\ turn'[s].event.sessionId = s
              /\ res.hasResult => turn'[s].event.response = res.response
              /\ res.hasResult /\ res.aborted => ~abortFlags'[s]
              /\ ~res.hasResult => res.aborted = abortFlags'[s]
         ELSE /\ turn'[s].emitted = 0
              /\ turn'[s].event = NoEvent]_vars

\* an aborted turn whose notification was emitted after the flag was cleared
C25_Witness ==
  /\ turn[1].pc = "returned"
  /\ queryResult[1].hasResult
  /\ queryResult[1].aborted
  /\ turn[1].emitted = 1
  /\ turn[1].event = [sessionId |-> 1, response |-> ""]
  /\ abortRequests[1] > 0
  /\ ~abortFlags[1]

\* a step of session b's call, as opposed to an abort request
CallStep(b) ==
  (turn'[b] # turn[b] \/ turns'[b] # turns[b]) /\ abortRequests' = abortRequests

\* C20: with calls of distinct sessions interleaved, an abort request for a
\* changes nothing of b, a step of b's call leaves a's abort flag and token
\* alone, and b's call returns aborted only after an abort request for b or
\* an 'AbortError' rejection of b's own tool.
C20_SessionIsolation ==
  [][\A a, b \in Sessions :
       a # b =>
         /\ abortRequests'[a] # abortRequests[a] =>
              /\ abortFlags'[b] = abortFlags[b]
              /\ abortController'[b] = abortController[b]
              /\ turn'[b] = turn[b]
              /\ queryResult'[b] = queryResult[b]
         /\ (CallStep(b) /\ ~CallStep(a)) =>
              (abortFlags'[a] = abortFlags[a] /\ abortController'[a] = abortController[a])
         /\ (CallEnds(b) /\ queryResult'[b].aborted) =>
              \/ abortRequests[b] > 0
              \/ turn[b].execPromise = Rejected(ErrorObj("AbortError"))]_vars

\* b's call has returned aborted while a's call is in flight with a's flag set
C20_Witness ==
  /\ turn[1].pc \in {"model", "tool"}
  /\ abortFlags[1]
  /\ abortController[1].aborted
  /\ turn[2].pc = "returned"
  /\ queryResult[2].aborted
  /\ ~abortFlags[2]

\* Concurrent calls on distinct sessions, each with an id; every await of one
\* call is a point where a step of another session can run.
IsolationNext ==
  \/ \E s \in Sessions : ProcessQueryFastPath(s, FirstCall)
  \/ \E s \in Sessions : ProcessQuery(s, FirstCall)
  \/ \E s \in Sessions : ModelRespond(s, FirstIteration, SingleRequest)
  \/ \E s \in Sessions : TurnToolSettle(s)
  \/ \E s \in Sessions : TurnToolResume(s)
  \/ \E s \in Sessions : AbortRequest(s, FirstAbort)

\* ---------------------------------------------------------- runConversation
Queries == {QueryOf(1), QueryOf(2)}

\* lines 255-258: the locals before the loop
ConversationInit ==
  conversation = [pc |-> "idle", submitted |-> << >>, responses |-> << >>,
                  calls |-> 0, result |-> NoQueryResult]

\* LoopEnds leaving the loop only once a response came back
LoopEndsOnResponse(result) == result.response # ""

\* lines 263-267 (break on error) and 273-274 with the loop condition of 260
LoopEnds(result) == result.error # "" \/ result.done

\* lines 263-271: what one result adds to responses
Collected(responses, result) ==
  IF result.error # "" THEN Append(responses, "Error: " \o result.error)
  ELSE IF result.response # "" THEN Append(responses, result.response)
  ELSE responses

\* runConversation, lines 254-261: up to the first await of processQuery
RunConversation ==
  /\ conversation.pc = "idle"
  /\ \E q \in Queries :
       conversation' = [conversation EXCEPT !.pc = "calling", !.submitted = <<q>>,
                                            !.calls = 1]
  /\ UNCHANGED <<execVars, factoryVars, runnerVars>>

\* The awaited processQuery call has returned.  The session state of line
\* 256 has no id, so the call ended at lines 152-160.  Lines 263-287 follow:
\* leave the loop and return, or submit the placeholder query.
ConversationResume ==
  /\ conversation.pc = "calling"
  /\ LET result == MissingIdResult
         collected == Collected(conversation.responses, result)
     IN IF LoopEnds(result)
        THEN conversation' = [conversation EXCEPT !.pc = "done", !.result = result,
                                                  !.responses = collected]
        ELSE /\ conversation.calls < MaxConversationCalls
             /\ conversation' = [conversation EXCEPT !.result = result,
                                                     !.responses = collected,
                                                     !.submitted = Append(@, "Continue"),
                                                     !.calls = @ + 1]
  /\ UNCHANGED <<execVars, factoryVars, runnerVars>>

\* runConversation beside a processQuery call on a session with an id
ConversationNext ==
  \/ RunConversation
  \/ ConversationResume
  \/ \E s \in RunnerSessions : ProcessQueryFastPath(s, FirstCall)
  \/ \E s \in RunnerSessions : ProcessQuery(s, FirstCall)
  \/ \E s \in RunnerSessions : ModelRespond(s, FirstIteration, SingleRequest)
  \/ \E s \in RunnerSessions : TurnToolSettle(s)
  \/ \E s \in RunnerSessions : TurnToolResume(s)
  \/ \E s \in RunnerSessions : AbortRequest(s, FirstAbort)

\* C26: runConversation makes exactly one processQuery call, with the initial
\* query and never with "Continue", and then returns: with the error of the
\* result recorded as "Error: <message>", or else with its response if it
\* has one; every result processQuery returns has done = TRUE.
C26_RunConversationTerminates ==
  /\ [](/\ \A s \in Sessions : queryResult[s].kind = "returned" => queryResult[s].done
        /\ conversation.calls <= 1
        /\ \A i \in 1..Len(conversation.submitted) :
             conversation.submitted[i] # "Continue"
        /\ conversation.pc = "done" =>
             /\ conversation.calls = 1
             /\ conversation.result.done \/ conversation.result.error # ""
             /\ conversation.responses =
                  (IF conversation.result.error # ""
                   THEN <<"Error: " \o conversation.result.error>>
                   ELSE IF conversation.result.response # ""
                   THEN <<conversation.result.response>>
                   ELSE << >>))
  /\ (conversation.pc = "calling") ~> (conversation.pc = "done")

\* runConversation has returned after its one call
C26_Witness ==
  /\ conversation.pc = "done"
  /\ conversation.calls = 1
  /\ conversation.submitted \in {<<q>> : q \in Queries}
  /\ Len(conversation.responses) = 1

Init == ExecInit /\ FactoryInit /\ RunnerInit /\ ConversationInit

Next == ExecNext

Spec == Init /\ [][Next]_vars

FactorySpec == Init /\ [][FactoryNext]_vars

RunnerSpec == Init /\ [][RunnerNext]_vars

TurnSpec == Init /\ [][TurnNext]_vars

IsolationSpec == Init /\ [][IsolationNext]_vars

\* The event loop resumes runConversation once its processQuery call settled.
ConversationSpec ==
  Init /\ [][ConversationNext]_vars /\ WF_vars(ConversationResume)

\* The event loop runs every continuation whose promise has settled; nothing
\* makes a tool settle or a signal fire.
FairNext ==
  \/ \E c \in FairCalls : Enter(c)
  \/ \E c \in FairCalls : EnterSyncThrow(c)
  \/ \E c \in FairCalls : ToolSettle(c)
  \/ SignalFire
  \/ \E c \in FairCalls : Resume(c)

FairSpec == Init /\ [][FairNext]_vars /\ \A c \in FairCalls : WF_vars(Resume(c))

====
